---- MODULE Spec2Model ----
(***************************************************************************)
(* A model of the Astro controller (pkg/controllers/astro_controller.go):  *)
(* the informer event handlers, the rate-limited work queue they feed, the *)
(* workers started by Run, and syncHandler with its three branches.        *)
(*                                                                         *)
(* A queue key is the string "<namespace>/<name>"; it is modelled as the   *)
(* sequence of its "/"-separated parts, so that "ns/a" is <<"ns", "a">>.   *)
(* A finalizer list is a sequence of strings, as in the Go slice.          *)
(***************************************************************************)
EXTENDS Integers, Sequences, FiniteSets, TLC

\* ------------------------------------------------------------------ bounds
NumWorkers == 2        \* the `thread` argument of Run
MaxEdits == 2          \* how many writes the other clients of the store make
MaxFinalizers == 3     \* length of the finalizer lists a handler is called with
MaxRequeues == 18      \* requeues of one key before the workers are started

\* --------------------------------------------------------------- constants
AstroFinalizer == "astros.astertower.kasterism.io"
OtherFinalizer == "example.io/other"

Namespace == "ns"
Names == {"a"}
ObjIds == {<<Namespace, n>> : n \in Names}

\* Items that a test harness can put in the queue besides object keys.
MalformedKey == <<"x", "y", "z">>
NonStringItem == <<"#int">>

Workers == 1..NumWorkers

\* workqueue.DefaultControllerRateLimiter(): the per-item delay starts at 5ms,
\* doubles with every requeue and stops at 1000s. In milliseconds.
BaseDelay == 5
MaxDelay == 1000000

NoObj == [exists |-> FALSE, uid |-> 0, rv |-> 0, fin |-> <<>>, del |-> FALSE]

VARIABLES
    store,      \* the API server: ObjIds -> object record
    rev,        \* ObjIds -> the last resourceVersion given out for the key
    edits,      \* the number of writes by other clients so far
    cache,      \* the informer's indexer, read by the Lister
    hasSynced,  \* Informer().HasSynced()
    stopCh,     \* TRUE once stopCh is closed
    runPc,      \* where Run is
    wq,         \* c.workqueue
    pc,         \* where each worker goroutine is
    item,       \* the item a worker got from the queue
    astro,      \* the object a worker read and is about to Update
    res         \* what syncHandler did and returned, while it is returning

vars == <<store, rev, edits, cache, hasSynced, stopCh, runPc, wq, pc, item, astro, res>>

Range(s) == {s[i] : i \in DOMAIN s}

\* ------------------------------------------------------------ object keys
\* cache.MetaNamespaceKeyFunc: "<namespace>/<name>", or "<name>" alone for an
\* object without a namespace.
MetaNamespaceKeyFunc(id) == IF id[1] = "" THEN <<id[2]>> ELSE <<id[1], id[2]>>

\* cache.SplitMetaNamespaceKey: one part is a name, two parts are namespace
\* and name, anything else is an error (namespace and name come back empty).
SplitMetaNamespaceKey(key) ==
    CASE Len(key) = 1 -> [namespace |-> "", name |-> key[1], err |-> FALSE]
      [] Len(key) = 2 -> [namespace |-> key[1], name |-> key[2], err |-> FALSE]
      [] OTHER -> [namespace |-> "", name |-> "", err |-> TRUE]

\* item.(string)
IsString(x) == x # NonStringItem

Keys == {MetaNamespaceKeyFunc(id) : id \in ObjIds}
Items == Keys \cup {MalformedKey, NonStringItem}

\* Lister().Astros(namespace).Get(name): a lookup of namespace + "/" + name
\* in the informer's indexer.
ListerGet(c, namespace, name) ==
    IF <<namespace, name>> \in DOMAIN c /\ c[<<namespace, name>>].exists
    THEN [found |-> TRUE, obj |-> c[<<namespace, name>>]]
    ELSE [found |-> FALSE, obj |-> NoObj]

\* ---------------------------------------------------------- the work queue
\* workqueue.NewNamedRateLimitingQueue(DefaultControllerRateLimiter(), ...):
\*   queue       the items ready to be handed out, in order
\*   dirty       the items that need processing
\*   processing  the items handed out by Get and not yet Done
\*   waiting     the items of AddAfter whose delay has not elapsed
\*   failures    the rate limiter's per-item requeue count
\* failures and delay are the rate limiter's: the requeues it has counted
\* for an item and the delay it returned for the last of them.
EmptyQueue ==
    [queue |-> <<>>, dirty |-> {}, processing |-> {}, waiting |-> {},
     failures |-> [x \in Items |-> 0], delay |-> [x \in Items |-> 0],
     shuttingDown |-> FALSE]

\* The rate limiter's When for an item it has counted n requeues for. The
\* limiter's other part, a bucket of 100 tokens refilled 10 a second for all
\* items together, adds no delay while it has tokens, as it has in every run
\* checked here.
When(n) ==
    IF BaseDelay * 2^n > MaxDelay THEN MaxDelay ELSE BaseDelay * 2^n

QAdd(q, x) ==
    IF q.shuttingDown \/ x \in q.dirty THEN q
    ELSE IF x \in q.processing THEN [q EXCEPT !.dirty = @ \cup {x}]
    ELSE [q EXCEPT !.dirty = @ \cup {x}, !.queue = Append(@, x)]

\* Get, once it does not block: the head of the queue starts processing.
QGet(q) ==
    [q EXCEPT !.queue = Tail(@),
              !.processing = @ \cup {Head(q.queue)},
              !.dirty = @ \ {Head(q.queue)}]

QDone(q, x) ==
    IF x \in q.dirty
    THEN [q EXCEPT !.processing = @ \ {x}, !.queue = Append(@, x)]
    ELSE [q EXCEPT !.processing = @ \ {x}]

QForget(q, x) == [q EXCEPT !.failures[x] = 0, !.delay[x] = 0]

\* AddRateLimited(x) is AddAfter(x, rateLimiter.When(x)): When counts the
\* requeue, and its delay is never zero, so the item waits before it is added.
QAddRateLimited(q, x) ==
    IF q.shuttingDown
    THEN [q EXCEPT !.failures[x] = @ + 1, !.delay[x] = When(q.failures[x])]
    ELSE [q EXCEPT !.failures[x] = @ + 1, !.delay[x] = When(q.failures[x]),
                   !.waiting = @ \cup {x}]

\* --------------------------------------------------------- finalizer lists
HasFinalizer(fin) == \E i \in DOMAIN fin : fin[i] = AstroFinalizer

\* syncCreate: append(astro.Finalizers, AstroFinalizer)
\* Mutant: the list is replaced by the token alone.
AppendFinalizerOnly(fin) == <<AstroFinalizer>>

AppendFinalizer(fin) == Append(fin, AstroFinalizer)

\* syncDelete's loop: it ranges over the slice as it was when the loop began
\* (arr, read through the shared backing array) while the body swaps the last
\* element of the current slice into place i and shortens the slice to len.
\* An index at or past the shortened length panics.
RECURSIVE RemoveLoop(_, _, _)
RemoveLoop(arr, len, i) ==
    IF i > Len(arr) THEN [panic |-> FALSE, fin |-> SubSeq(arr, 1, len)]
    ELSE IF arr[i] = AstroFinalizer
         THEN IF i > len
              THEN [panic |-> TRUE, fin |-> SubSeq(arr, 1, len)]
              ELSE RemoveLoop([arr EXCEPT ![i] = arr[len]], len - 1, i + 1)
         ELSE RemoveLoop(arr, len, i + 1)

\* Mutant: the slice is shortened whether or not the token was found.
RemoveFinalizerDropLast(fin) ==
    [panic |-> FALSE, fin |-> SubSeq(fin, 1, Len(fin) - 1)]

\* Mutant: the whole list is dropped.
RemoveFinalizerAll(fin) == [panic |-> FALSE, fin |-> <<>>]

RemoveFinalizer(fin) == RemoveLoop(fin, Len(fin), 1)

\* Mutant: the finalizer is looked for before the deletion timestamp.
ClassifyFinalizerFirst(obj) ==
    IF HasFinalizer(obj.fin) THEN "update"
    ELSE IF obj.del THEN "delete"
    ELSE "create"

\* Mutant: the deletion timestamp test is inverted.
ClassifyInverted(obj) ==
    IF ~obj.del THEN "delete"
    ELSE IF HasFinalizer(obj.fin) THEN "update"
    ELSE "create"

\* Mutant: the finalizer is not looked for at all.
ClassifyNoUpdate(obj) == IF obj.del THEN "delete" ELSE "create"

\* syncHandler's dispatch on the object it read.
Classify(obj) ==
    IF obj.del THEN "delete"
    ELSE IF HasFinalizer(obj.fin) THEN "update"
    ELSE "create"

\* ------------------------------------------------------------ the API server
\* What other clients create objects with: never this controller's token.
InitFinalizers == {<<>>, <<OtherFinalizer>>}

\* Update(astro): refused when the object is gone or astro's resourceVersion
\* is stale; a write that changes nothing stores nothing; an object whose
\* deletion was requested is purged when its last finalizer goes.
UpdateConflicts(st, id, obj) == ~st[id].exists \/ st[id].rv # obj.rv

UpdateStored(st, r, id, obj) ==
    IF obj.fin = st[id].fin THEN st
    ELSE IF st[id].del /\ obj.fin = <<>> THEN [st EXCEPT ![id] = NoObj]
    ELSE [st EXCEPT ![id] = [@ EXCEPT !.rv = r[id] + 1, !.fin = obj.fin]]

UpdateRev(st, r, id, obj) ==
    IF obj.fin = st[id].fin THEN r ELSE [r EXCEPT ![id] = @ + 1]

\* ------------------------------------------------------ the event handlers
addAstro(q, id) == QAddRateLimited(q, MetaNamespaceKeyFunc(id))

deleteAstro(q, id) == QAddRateLimited(q, MetaNamespaceKeyFunc(id))

\* Mutant: the resourceVersion comparison is missing.
updateAstroAlways(q, id, old, new) == QAddRateLimited(q, MetaNamespaceKeyFunc(id))

updateAstro(q, id, old, new) ==
    IF old.rv = new.rv THEN q
    ELSE QAddRateLimited(q, MetaNamespaceKeyFunc(id))

RECURSIVE AddAll(_, _)
AddAll(q, ids) ==
    IF ids = {} THEN q
    ELSE LET id == CHOOSE x \in ids : TRUE
         IN  AddAll(addAstro(q, id), ids \ {id})

\* --------------------------------------------------------------- workers
NoItem == <<>>
NoAstro == [id |-> <<"", "">>, obj |-> NoObj]
NoRes == [err |-> FALSE, path |-> "none", reads |-> 0, writes |-> 0]

Alive == \A w \in Workers : pc[w] # "crashed"

\* syncHandler up to the point where it returns or calls a handler: which
\* path it takes for what the Lister answered.
SyncPath(got, readFails) ==
    IF readFails THEN "readerr"
    ELSE IF ~got.found THEN "notfound"
    ELSE Classify(got.obj)

\* Mutant: not-found is returned like any other error of the read.
SyncPathErrNotFound(path) == path \in {"readerr", "notfound"}

\* The error syncHandler returns on the paths that end without an Update.
SyncPathErr(path) == path = "readerr"

\* What a handler does to astro.Finalizers before it calls Update.
HandlerFinalizers(path, fin) ==
    IF path = "create" THEN [panic |-> FALSE, fin |-> AppendFinalizer(fin)]
    ELSE RemoveFinalizer(fin)

\* Mutant: Done only on success.
FinishQueueNoDoneOnError(q, x, err) ==
    IF err THEN q ELSE QDone(QForget(q, x), x)

\* Mutant: Forget whatever syncHandler returned.
FinishQueueForgetOnError(q, x, err) == QDone(QForget(q, x), x)

\* processNextWorkItem after syncHandler has returned: Forget on success,
\* nothing on an error, and the deferred Done in both cases.
FinishQueue(q, x, err) ==
    IF err THEN QDone(q, x) ELSE QDone(QForget(q, x), x)

\* processNextWorkItem's result: false on an error, which ends runWorker.
FinishPc(err) == IF err THEN "exited" ELSE "get"

\* Mutant: Done is called at once instead of deferred.
GetQueueDoneEarly(q) == QDone(QGet(q), Head(q.queue))

\* processNextWorkItem's Get; the Done of the item is deferred to the end.
GetQueue(q) == QGet(q)

\* Run's deferred call: ShuttingDown() only reports whether the queue is
\* shutting down.
DeferredShuttingDown(q) == q

\* ------------------------------------------------------------------- Init
\* The state after NewAstroController: the handlers are registered, the
\* queue is empty, the informer has listed nothing yet, Run is not called.
InitWith(q) ==
    /\ store = [id \in ObjIds |-> NoObj]
    /\ rev = [id \in ObjIds |-> 0]
    /\ edits = 0
    /\ cache = [id \in ObjIds |-> NoObj]
    /\ hasSynced = FALSE
    /\ stopCh = FALSE
    /\ runPc = "start"
    /\ wq = q
    /\ pc = [w \in Workers |-> "unlaunched"]
    /\ item = [w \in Workers |-> NoItem]
    /\ astro = [w \in Workers |-> NoAstro]
    /\ res = [w \in Workers |-> NoRes]

Init == InitWith(EmptyQueue)

ctlVars == <<hasSynced, stopCh, runPc, pc, item, astro, res>>
wrkVars == <<pc, item, astro, res>>

\* ------------------------------------------------- other clients of the store
ExtCreate(id, fin) ==
    /\ ~store[id].exists
    /\ edits < MaxEdits
    /\ edits' = edits + 1
    /\ rev' = [rev EXCEPT ![id] = @ + 1]
    /\ store' = [store EXCEPT ![id] =
                    [exists |-> TRUE, uid |-> rev[id] + 1, rv |-> rev[id] + 1,
                     fin |-> fin, del |-> FALSE]]
    /\ UNCHANGED <<cache, wq, ctlVars>>

\* An edit of the object's spec or status: only the version changes here.
ExtEdit(id) ==
    /\ store[id].exists
    /\ edits < MaxEdits
    /\ edits' = edits + 1
    /\ rev' = [rev EXCEPT ![id] = @ + 1]
    /\ store' = [store EXCEPT ![id].rv = rev[id] + 1]
    /\ UNCHANGED <<cache, wq, ctlVars>>

\* A deletion request: an object without finalizers goes at once, any other
\* gets its deletion timestamp.
ExtDelete(id) ==
    /\ store[id].exists
    /\ ~store[id].del
    /\ edits < MaxEdits
    /\ edits' = edits + 1
    /\ rev' = [rev EXCEPT ![id] = @ + 1]
    /\ store' = IF store[id].fin = <<>>
                THEN [store EXCEPT ![id] = NoObj]
                ELSE [store EXCEPT ![id] = [@ EXCEPT !.rv = rev[id] + 1, !.del = TRUE]]
    /\ UNCHANGED <<cache, wq, ctlVars>>

\* ------------------------------------------------------------ the informer
\* The initial list: every object found is an add notification.
InformerInitialSync ==
    /\ ~hasSynced
    /\ hasSynced' = TRUE
    /\ cache' = store
    /\ wq' = AddAll(wq, {id \in ObjIds : store[id].exists})
    /\ UNCHANGED <<store, rev, edits, stopCh, runPc, wrkVars>>

\* The watch brings the cache up to the store's object and notifies.
InformerDeliver(id) ==
    /\ hasSynced
    /\ cache[id].exists # store[id].exists \/ cache[id].rv # store[id].rv
    /\ cache' = [cache EXCEPT ![id] = store[id]]
    /\ wq' = IF ~cache[id].exists THEN addAstro(wq, id)
             ELSE IF ~store[id].exists THEN deleteAstro(wq, id)
             ELSE updateAstro(wq, id, cache[id], store[id])
    /\ UNCHANGED <<store, rev, edits, ctlVars>>

\* The periodic resync: an update notification of the cached object to itself.
InformerResync(id) ==
    /\ hasSynced
    /\ cache[id].exists
    /\ wq' = updateAstro(wq, id, cache[id], cache[id])
    /\ UNCHANGED <<store, rev, edits, cache, ctlVars>>

\* The delaying queue's timer: a waiting item's delay is over.
DelayFire(x) ==
    /\ x \in wq.waiting
    /\ wq' = QAdd([wq EXCEPT !.waiting = @ \ {x}], x)
    /\ UNCHANGED <<store, rev, edits, cache, ctlVars>>

\* ---------------------------------------------------------------------- Run
Stop ==
    /\ ~stopCh
    /\ stopCh' = TRUE
    /\ UNCHANGED <<store, rev, edits, cache, wq, hasSynced, runPc, wrkVars>>

\* WaitForCacheSync's first look finds the cache not synced: it polls.
RunPoll ==
    /\ runPc = "start"
    /\ ~hasSynced
    /\ runPc' = "poll"
    /\ UNCHANGED <<store, rev, edits, cache, wq, hasSynced, stopCh, wrkVars>>

\* WaitForCacheSync gives up when stopCh closes: Run returns the error.
RunSyncFailed ==
    /\ runPc = "poll"
    /\ stopCh
    /\ runPc' = "failed"
    /\ wq' = DeferredShuttingDown(wq)
    /\ UNCHANGED <<store, rev, edits, cache, hasSynced, stopCh, wrkVars>>

\* Mutant: the result of WaitForCacheSync is ignored.
MayLaunchAlways(synced) == TRUE

\* Whether Run goes on to start the workers after WaitForCacheSync.
MayLaunch(synced) == synced

\* WaitForCacheSync succeeds: Run starts `thread` goroutines of wait.Until.
RunLaunch ==
    /\ runPc \in {"start", "poll"}
    /\ MayLaunch(hasSynced)
    /\ runPc' = "running"
    /\ pc' = [w \in Workers |-> "until"]
    /\ UNCHANGED <<store, rev, edits, cache, wq, hasSynced, stopCh, item, astro, res>>

\* <-stopCh, then the deferred calls.
RunReturn ==
    /\ runPc = "running"
    /\ stopCh
    /\ runPc' = "returned"
    /\ wq' = DeferredShuttingDown(wq)
    /\ UNCHANGED <<store, rev, edits, cache, hasSynced, stopCh, wrkVars>>

\* ------------------------------------------------------------- the workers

\* wait.Until: before each call of runWorker (at the start, and a period
\* after runWorker returned) the goroutine ends if stopCh is closed.
WorkerUntil(w) ==
    /\ Alive
    /\ pc[w] \in {"until", "exited"}
    /\ pc' = [pc EXCEPT ![w] = IF stopCh THEN "stopped" ELSE "get"]
    /\ UNCHANGED <<store, rev, edits, cache, wq, hasSynced, stopCh, runPc, item, astro, res>>

\* processNextWorkItem: Get blocks while the queue is empty and not shut down.
WorkerGet(w) ==
    /\ Alive
    /\ pc[w] = "get"
    /\ wq.queue # <<>> \/ wq.shuttingDown
    /\ IF wq.queue = <<>>
       THEN /\ pc' = [pc EXCEPT ![w] = "exited"]
            /\ UNCHANGED <<wq, item>>
       ELSE /\ pc' = [pc EXCEPT ![w] = "sync"]
            /\ item' = [item EXCEPT ![w] = Head(wq.queue)]
            /\ wq' = GetQueue(wq)
    /\ UNCHANGED <<store, rev, edits, cache, hasSynced, stopCh, runPc, astro, res>>

\* The type check of the item, then syncHandler down to its return or to the
\* handler's call of Update. The handlers change the finalizers of the object
\* the Lister returned, which is the cached object itself.
WorkerSync(w) ==
    /\ Alive
    /\ pc[w] = "sync"
    /\ IF ~IsString(item[w])
       THEN /\ res' = [res EXCEPT ![w] = [NoRes EXCEPT !.path = "nonstring"]]
            /\ pc' = [pc EXCEPT ![w] = "ret"]
            /\ UNCHANGED <<cache, astro, wq>>
       ELSE \E readFails \in BOOLEAN :
            LET sp   == SplitMetaNamespaceKey(item[w])
                id   == <<sp.namespace, sp.name>>
                got  == ListerGet(cache, sp.namespace, sp.name)
                path == SyncPath(got, readFails)
                hf   == HandlerFinalizers(path, got.obj.fin)
                obj  == [got.obj EXCEPT !.fin = hf.fin]
            IN  IF path \in {"create", "delete"}
                THEN /\ cache' = [cache EXCEPT ![id] = obj]
                     /\ IF hf.panic
                        THEN /\ pc' = [pc EXCEPT ![w] = "crashed"]
                             /\ wq' = QDone(wq, item[w])
                             /\ UNCHANGED <<astro, res>>
                        ELSE /\ pc' = [pc EXCEPT ![w] = "persist"]
                             /\ astro' = [astro EXCEPT ![w] = [id |-> id, obj |-> obj]]
                             /\ res' = [res EXCEPT ![w] =
                                           [NoRes EXCEPT !.path = path, !.reads = 1]]
                             /\ UNCHANGED wq
                ELSE /\ res' = [res EXCEPT ![w] =
                                   [err |-> SyncPathErr(path), path |-> path,
                                    reads |-> 1, writes |-> 0]]
                     /\ pc' = [pc EXCEPT ![w] = "ret"]
                     /\ UNCHANGED <<cache, astro, wq>>
    /\ UNCHANGED <<store, rev, edits, hasSynced, stopCh, runPc, item>>

\* syncCreate's or syncDelete's Update, and the handler's return.
WorkerPersist(w) ==
    /\ Alive
    /\ pc[w] = "persist"
    /\ \E fails \in BOOLEAN :
         LET bad == fails \/ UpdateConflicts(store, astro[w].id, astro[w].obj)
         IN  /\ store' = IF bad THEN store
                         ELSE UpdateStored(store, rev, astro[w].id, astro[w].obj)
             /\ rev' = IF bad THEN rev
                       ELSE UpdateRev(store, rev, astro[w].id, astro[w].obj)
             /\ res' = [res EXCEPT ![w] = [@ EXCEPT !.err = bad, !.writes = 1]]
    /\ pc' = [pc EXCEPT ![w] = "ret"]
    /\ astro' = [astro EXCEPT ![w] = NoAstro]
    /\ UNCHANGED <<edits, cache, wq, hasSynced, stopCh, runPc, item>>

\* The rest of processNextWorkItem once syncHandler has returned.
WorkerFinish(w) ==
    /\ Alive
    /\ pc[w] = "ret"
    /\ wq' = FinishQueue(wq, item[w], res[w].err)
    /\ pc' = [pc EXCEPT ![w] = FinishPc(res[w].err)]
    /\ item' = [item EXCEPT ![w] = NoItem]
    /\ res' = [res EXCEPT ![w] = NoRes]
    /\ UNCHANGED <<store, rev, edits, cache, hasSynced, stopCh, runPc, astro>>

\* -------------------------------------------------------------------- Next
\* The steps that do not need the informer's cache to be still unsynced.
NextSynced ==
    \/ \E id \in ObjIds, fin \in InitFinalizers : ExtCreate(id, fin)
    \/ \E id \in ObjIds : ExtEdit(id)
    \/ \E id \in ObjIds : ExtDelete(id)
    \/ \E id \in ObjIds : InformerDeliver(id)
    \/ \E id \in ObjIds : InformerResync(id)
    \/ \E x \in Items : DelayFire(x)
    \/ Stop
    \/ RunLaunch
    \/ RunReturn
    \/ \E w \in Workers : WorkerUntil(w)
    \/ \E w \in Workers : WorkerGet(w)
    \/ \E w \in Workers : WorkerSync(w)
    \/ \E w \in Workers : WorkerPersist(w)
    \/ \E w \in Workers : WorkerFinish(w)

Next ==
    \/ InformerInitialSync
    \/ RunPoll
    \/ RunSyncFailed
    \/ NextSynced

Spec == Init /\ [][Next]_vars

\* The controller as a test drives it: the queue starts with one item that no
\* event handler produces, a key that does not parse or a value that is no
\* string.
InitUnit == \E x \in {MalformedKey, NonStringItem} : InitWith(QAdd(EmptyQueue, x))

SpecUnit == InitUnit /\ [][Next]_vars

\* Every goroutine of the controller keeps running when it can take a step;
\* other clients of the store and the stop signal are under no obligation.
Worker(w) ==
    \/ WorkerUntil(w)
    \/ WorkerGet(w)
    \/ WorkerSync(w)
    \/ WorkerPersist(w)
    \/ WorkerFinish(w)

Fairness ==
    /\ \A w \in Workers : WF_vars(Worker(w))
    /\ \A x \in Keys : WF_vars(DelayFire(x))
    /\ WF_vars(RunLaunch)

FairSpec == Spec /\ Fairness

\* ------------------------------------------------ a key requeued many times
\* The controller before Run is called, with an object that other clients
\* have created and then edited until its key has been requeued n times:
\* every notification is delivered and every delay has run out, so the key
\* is in the queue once. edits counts the writes from here on.
InitBackoff ==
    \E id \in ObjIds, n \in (MaxRequeues - 1)..MaxRequeues :
        LET obj == [exists |-> TRUE, uid |-> 1, rv |-> n, fin |-> <<>>,
                    del |-> FALSE]
            key == MetaNamespaceKeyFunc(id)
        IN  /\ store = [i \in ObjIds |-> IF i = id THEN obj ELSE NoObj]
            /\ rev = [i \in ObjIds |-> IF i = id THEN n ELSE 0]
            /\ edits = 0
            /\ cache = store
            /\ hasSynced = TRUE
            /\ stopCh = FALSE
            /\ runPc = "start"
            /\ wq = [EmptyQueue EXCEPT !.queue = <<key>>, !.dirty = {key},
                                       !.failures[key] = n,
                                       !.delay[key] = When(n - 1)]
            /\ pc = [w \in Workers |-> "unlaunched"]
            /\ item = [w \in Workers |-> NoItem]
            /\ astro = [w \in Workers |-> NoAstro]
            /\ res = [w \in Workers |-> NoRes]

SpecBackoff == InitBackoff /\ [][NextSynced]_vars

\* ------------------------------------------------- the handlers on their own
\* syncCreate and syncDelete called directly, as a test of the handlers
\* does: the object is the cached one, its finalizer list is any list over
\* the token and another finalizer, and the store holds the same object.
FinalizerLists ==
    UNION {[1..n -> {AstroFinalizer, OtherFinalizer}] : n \in 0..MaxFinalizers}

InitHandlers ==
    \E id \in ObjIds, fin \in FinalizerLists, del \in BOOLEAN,
       path \in {"create", "delete"} :
        LET obj == [exists |-> TRUE, uid |-> 1, rv |-> 1, fin |-> fin,
                    del |-> del]
        IN  /\ del => fin # <<>>
            /\ store = [i \in ObjIds |-> IF i = id THEN obj ELSE NoObj]
            /\ rev = [i \in ObjIds |-> IF i = id THEN 1 ELSE 0]
            /\ edits = 0
            /\ cache = store
            /\ hasSynced = TRUE
            /\ stopCh = FALSE
            /\ runPc = "start"
            /\ wq = EmptyQueue
            /\ pc = [w \in Workers |-> IF w = 1 THEN "call" ELSE "unlaunched"]
            /\ item = [w \in Workers |-> NoItem]
            /\ astro = [w \in Workers |->
                          IF w = 1 THEN [id |-> id, obj |-> obj] ELSE NoAstro]
            /\ res = [w \in Workers |->
                        IF w = 1 THEN [NoRes EXCEPT !.path = path] ELSE NoRes]

\* The handler's body up to its Update: astro.Finalizers is changed in the
\* object the caller passed, which is the cached one unless the informer
\* has replaced it since.
HandlerCall(w) ==
    /\ Alive
    /\ pc[w] = "call"
    /\ Len(astro[w].obj.fin) <= MaxFinalizers
    /\ LET hf  == HandlerFinalizers(res[w].path, astro[w].obj.fin)
           obj == [astro[w].obj EXCEPT !.fin = hf.fin]
       IN  /\ cache' = IF cache[astro[w].id] = astro[w].obj
                       THEN [cache EXCEPT ![astro[w].id] = obj]
                       ELSE cache
           /\ astro' = [astro EXCEPT ![w] = [@ EXCEPT !.obj = obj]]
           /\ pc' = [pc EXCEPT ![w] = IF hf.panic THEN "crashed" ELSE "persist"]
    /\ res' = [res EXCEPT ![w] = [NoRes EXCEPT !.path = res[w].path]]
    /\ UNCHANGED <<store, rev, edits, hasSynced, stopCh, runPc, wq, item>>

\* The caller calls the same handler again, on the object the cache holds.
CallAgain(w) ==
    /\ Alive
    /\ pc[w] = "ret"
    /\ \E id \in ObjIds :
         /\ cache[id].exists
         /\ astro' = [astro EXCEPT ![w] = [id |-> id, obj |-> cache[id]]]
    /\ pc' = [pc EXCEPT ![w] = "call"]
    /\ UNCHANGED <<store, rev, edits, cache, hasSynced, stopCh, runPc, wq, item, res>>

NextHandlers ==
    \/ \E w \in Workers : HandlerCall(w)
    \/ \E w \in Workers : WorkerPersist(w)
    \/ \E w \in Workers : CallAgain(w)
    \/ \E id \in ObjIds : InformerDeliver(id)

SpecHandlers == InitHandlers /\ [][NextHandlers]_vars

\* ------------------------------------------------------------------ claims
\* The items the workers hold: got from the queue and not yet Done.
Busy(w) == pc[w] \in {"sync", "persist", "ret"}
InFlight == {item[w] : w \in {v \in Workers : Busy(v)}}
TokenIn(fin) == AstroFinalizer \in Range(fin)

\* C1: the controller's token leaves a stored finalizer list (by a write or
\* by the object's purge) only in a step that is the successful Update of
\* deletion handling, whose object no longer lists the token; and deletion
\* handling only ever holds an object whose deletion timestamp is set, which
\* the stored object then has too.
C1_TokenLeavesOnlyByDelete ==
    [][/\ \A w \in Workers :
            (pc'[w] = "persist" /\ res'[w].path = "delete") => astro'[w].obj.del
       /\ \A id \in ObjIds :
            (/\ store[id].exists /\ TokenIn(store[id].fin)
             /\ ~store'[id].exists \/ ~TokenIn(store'[id].fin))
            => /\ store[id].del
               /\ \E w \in Workers :
                    /\ pc[w] = "persist" /\ res[w].path = "delete"
                    /\ astro[w].id = id /\ ~TokenIn(astro[w].obj.fin)
                    /\ pc'[w] = "ret" /\ ~res'[w].err]_vars

\* Deletion handling has removed the token and the store has purged the object.
C1_Witness ==
    \E w \in Workers, id \in ObjIds :
        /\ pc[w] = "ret" /\ res[w].path = "delete" /\ ~res[w].err
        /\ item[w] = MetaNamespaceKeyFunc(id)
        /\ ~store[id].exists /\ rev[id] > 0

\* C2: no two workers are between Get and Done with the same item.
C2_OneSyncPerKey ==
    \A w1, w2 \in Workers :
        (w1 # w2 /\ Busy(w1) /\ Busy(w2)) => item[w1] # item[w2]

\* A key is added again while a worker syncs it, and another worker is idle
\* in Get: the key is not handed out.
C2_Witness ==
    \E w1, w2 \in Workers :
        /\ pc[w1] \in {"sync", "persist"} /\ item[w1] \in wq.dirty
        /\ pc[w2] = "get"

\* C3 as stated: a key added while it is being processed is handed out by Get
\* again.
C3_ReAddedIsHandedOut ==
    \A k \in Keys :
        (k \in wq.dirty /\ k \in wq.processing)
        ~> (k \notin wq.dirty /\ \E w \in Workers : pc[w] = "sync" /\ item[w] = k)

\* C3, amended: a key added while it is being processed is back in the queue
\* as soon as the current attempt calls Done, and, unless the stop signal
\* fires, Get hands it out again.
C3_ReAddedIsHandedOutUnlessStopped ==
    /\ [][\A w \in Workers :
            (pc[w] = "ret" /\ pc'[w] # "ret" /\ item[w] \in wq.dirty)
            => item[w] \in Range(wq'.queue)]_vars
    /\ \A k \in Keys :
        (k \in wq.dirty /\ k \in wq.processing)
        ~> (\/ k \notin wq.dirty /\ \E w \in Workers : pc[w] = "sync" /\ item[w] = k
            \/ stopCh)

\* A key is dirty while a worker returns from its sync, and no stop is signalled.
C3_Witness ==
    \E w \in Workers :
        pc[w] = "ret" /\ item[w] \in Keys /\ item[w] \in wq.dirty /\ ~stopCh

\* C4 as stated: when syncHandler has returned an error, the worker calls
\* AddRateLimited for the item, which counts a requeue and leaves the item
\* waiting for its delay.
C4_ErrorIsRequeued ==
    [][\A w \in Workers :
          (pc[w] = "ret" /\ res[w].err /\ pc'[w] # "ret")
          => /\ wq'.failures[item[w]] = wq.failures[item[w]] + 1
             /\ item[w] \in wq'.waiting]_vars

\* C5: when the Lister answers not-found, syncHandler returns nil and has
\* written nothing; the worker then forgets the item, goes on to its next
\* Get, and adds the item nowhere: it is queued again only if a handler had
\* marked it dirty meanwhile.
C5_NotFoundIsSuccess ==
    [][\A w \in Workers :
          /\ (/\ pc[w] = "sync" /\ pc'[w] = "ret" /\ IsString(item[w])
              /\ res'[w].path # "readerr"
              /\ LET sp == SplitMetaNamespaceKey(item[w])
                 IN  ~(<<sp.namespace, sp.name>> \in ObjIds
                       /\ cache[<<sp.namespace, sp.name>>].exists))
             => /\ res'[w].path = "notfound" /\ ~res'[w].err
                /\ res'[w].writes = 0
                /\ store' = store /\ cache' = cache
          /\ (pc[w] = "ret" /\ res[w].path = "notfound" /\ pc'[w] # "ret")
             => /\ res[w].writes = 0
                /\ pc'[w] = "get"
                /\ wq'.failures[item[w]] = 0
                /\ wq'.waiting = wq.waiting
                /\ item[w] \notin wq'.processing
                /\ wq'.queue = IF item[w] \in wq.dirty
                               THEN Append(wq.queue, item[w]) ELSE wq.queue]_vars

\* A worker returns from the sync of a key whose object is not in the cache,
\* with a requeue count to forget.
C5_Witness ==
    \E w \in Workers :
        /\ pc[w] = "ret" /\ res[w].path = "notfound" /\ item[w] \in Keys
        /\ wq.failures[item[w]] > 0

\* C6 as stated: for a key that does not parse, syncHandler returns nil
\* without a read of the Lister.
C6_MalformedKeyIsNotRead ==
    \A w \in Workers :
        (pc[w] = "ret" /\ item[w] = MalformedKey)
        => (res[w].reads = 0 /\ ~res[w].err)

\* C7: on a successful read syncHandler runs exactly the handler that the
\* object's state selects: syncDelete when the deletion timestamp is set,
\* whatever the finalizers; else syncUpdate when the token is listed; else
\* syncCreate. syncCreate and syncDelete go on to their Update, syncUpdate
\* returns nil.
C7_DispatchByPriority ==
    [][\A w \in Workers :
          (/\ pc[w] = "sync" /\ pc'[w] \in {"persist", "ret"} /\ IsString(item[w])
           /\ res'[w].path # "readerr")
          => LET sp  == SplitMetaNamespaceKey(item[w])
                 id  == <<sp.namespace, sp.name>>
                 hit == id \in ObjIds /\ cache[id].exists
             IN  IF ~hit THEN res'[w].path = "notfound"
                 ELSE /\ res'[w].path = (IF cache[id].del THEN "delete"
                                         ELSE IF TokenIn(cache[id].fin) THEN "update"
                                         ELSE "create")
                      /\ pc'[w] = (IF res'[w].path = "update" THEN "ret" ELSE "persist")
                      /\ res'[w].path = "update" => ~res'[w].err]_vars

\* syncDelete runs for an object that is being deleted and does not list the
\* token (the object it holds is the one it read: nothing was removed).
C7_Witness ==
    \E w \in Workers :
        /\ pc[w] = "persist" /\ res[w].path = "delete"
        /\ astro[w].obj.del /\ astro[w].obj = cache[astro[w].id]
        /\ astro[w].obj.fin = <<OtherFinalizer>>
        /\ store[astro[w].id] = astro[w].obj

\* C8: the items being processed according to the queue are exactly the
\* items the workers hold between Get and the end of processNextWorkItem:
\* each Get is matched by a Done of the same item before the worker's next
\* Get, whether syncHandler succeeded, failed or was not called.
C8_DoneForEveryGet == wq.processing = InFlight

\* A worker has left processNextWorkItem on the error path and nothing is
\* being processed.
C8_Witness ==
    \E w \in Workers : pc[w] = "exited" /\ wq.processing = {} /\ ~stopCh

\* C9 as stated, in the part a finite run decides: once Run has returned
\* after the stop signal, the queue is shut down (which is what lets a Get on
\* the empty queue return and the worker loops end).
C9_StopShutsQueueDown == runPc = "returned" => wq.shuttingDown

\* C10: a worker goroutine exists only once the informer has synced, and a
\* Run that returned the error of the cache wait has started none.
C10_WorkersOnlyAfterCacheSync ==
    /\ \A w \in Workers : pc[w] # "unlaunched" => hasSynced
    /\ runPc = "failed" => \A w \in Workers : pc[w] = "unlaunched"
    /\ runPc \in {"start", "poll"} => \A w \in Workers : pc[w] = "unlaunched"

\* The stop signal came before the initial sync: Run has returned its error.
C10_Witness ==
    runPc = "failed" /\ stopCh /\ \A w \in Workers : pc[w] = "unlaunched"

\* C11: an update notification changes the queue only when the version
\* changed. A step that brings the cache's object to another version (the
\* old and the new object of updateAstro) is one AddRateLimited of the
\* object's key: one more requeue counted, the key waiting, nothing else in
\* the queue touched. A step that leaves cache, store and every goroutine
\* where they were (as the notification of an object to itself does) leaves
\* the requeue counts, the queue and its dirty and processing sets alone.
C11_UpdateEnqueuesOnVersionChange ==
    [][/\ \A id \in ObjIds :
            (/\ cache[id].exists /\ cache'[id].exists
             /\ cache'[id].rv # cache[id].rv)
            => wq' = [wq EXCEPT
                        !.failures[MetaNamespaceKeyFunc(id)] = @ + 1,
                        !.delay = wq'.delay,
                        !.waiting = @ \cup {MetaNamespaceKeyFunc(id)}]
       /\ UNCHANGED <<store, cache, hasSynced, stopCh, runPc, pc>>
            => /\ wq'.failures = wq.failures
               /\ wq'.waiting \subseteq wq.waiting
               /\ wq'.processing = wq.processing]_vars

\* The cache holds a later version of an object than the one first
\* listed or added, the notifications of both are counted, and a resync
\* notification can come.
C11_Witness ==
    \E id \in ObjIds :
        /\ hasSynced /\ cache[id].exists /\ cache[id] = store[id]
        /\ cache[id].rv >= 2
        /\ wq.failures[MetaNamespaceKeyFunc(id)] >= 2
        /\ MetaNamespaceKeyFunc(id) \in wq.waiting
\* C12: syncCreate called on an object whose finalizer list already holds
\* the token leaves the list as it is: no second occurrence is added.
C12_CreateIsIdempotent ==
    [][\A w \in Workers :
         (/\ pc[w] = "call" /\ pc'[w] # "call"
          /\ res[w].path = "create"
          /\ TokenIn(astro[w].obj.fin))
         => /\ pc'[w] = "persist"
            /\ astro'[w].obj.fin = astro[w].obj.fin
            /\ cache' = cache]_vars

\* C13: syncDelete called on an object whose finalizer list lacks the token
\* does not panic and leaves the list as it is, on the first call and on
\* every later one, and its Update then fails only when the store refuses
\* it and otherwise stores that same list (or purges the object).
C13_DeleteToleratesAbsentToken ==
    [][\A w \in Workers :
         /\ (/\ pc[w] = "call" /\ pc'[w] # "call"
             /\ res[w].path = "delete"
             /\ ~TokenIn(astro[w].obj.fin))
            => /\ pc'[w] = "persist"
               /\ astro'[w].obj.fin = astro[w].obj.fin
               /\ cache' = cache
         /\ (/\ pc[w] = "persist" /\ pc'[w] = "ret"
             /\ res[w].path = "delete"
             /\ ~TokenIn(astro[w].obj.fin))
            => IF res'[w].err
               THEN store' = store
               ELSE \/ ~store'[astro[w].id].exists
                    \/ store'[astro[w].id].fin = astro[w].obj.fin]_vars

\* A second call of syncDelete, on the object as a first call stored it,
\* is about to write a list that never held the token or holds it no more.
C13_Witness ==
    \E w \in Workers :
        /\ pc[w] = "persist" /\ res[w].path = "delete"
        /\ astro[w].obj.rv >= 2
        /\ astro[w].obj.fin = <<OtherFinalizer>>
        /\ store[astro[w].id] = astro[w].obj

\* C14: whatever the workers, the other clients of the store and the
\* informer do, and however stale the cached object a worker reads is, no
\* stored finalizer list holds the controller's token more than once.
C14_TokenStoredAtMostOnce ==
    \A id \in ObjIds :
        Cardinality({i \in DOMAIN store[id].fin :
                        store[id].fin[i] = AstroFinalizer}) <= 1

\* An object that is stored with the token has been synced once more.
C14_Witness ==
    \E w \in Workers :
        /\ pc[w] = "ret" /\ res[w].path = "update"
        /\ \E id \in ObjIds :
             /\ item[w] = MetaNamespaceKeyFunc(id)
             /\ store[id].fin = <<OtherFinalizer, AstroFinalizer>>

\* C15: a sync whose Update succeeds changes the stored finalizer set by the
\* token and nothing else: syncCreate leaves the object stored with the old
\* set plus the token, syncDelete with the old set minus the token (the
\* object being purged exactly when that set is empty and differs from the
\* old one); every other finalizer stays.
C15_PersistChangesOnlyToken ==
    [][\A w \in Workers :
         (pc[w] = "persist" /\ pc'[w] = "ret" /\ ~res'[w].err)
         => LET id  == astro[w].id
                old == Range(store[id].fin)
                new == Range(store'[id].fin)
            IN  /\ res[w].path = "create"
                   => /\ ~store[id].del /\ AstroFinalizer \notin old
                      /\ store'[id].exists
                      /\ new = old \cup {AstroFinalizer}
                /\ res[w].path = "delete"
                   => /\ store[id].del
                      /\ new = old \ {AstroFinalizer}
                      /\ store'[id].exists <=> (new # {} \/ new = old)]_vars

\* syncDelete has stored the list without the token, the other finalizer
\* still in it.
C15_Witness ==
    \E w \in Workers :
        /\ pc[w] = "ret" /\ res[w].path = "delete" /\ ~res[w].err
        /\ \E id \in ObjIds :
             /\ item[w] = MetaNamespaceKeyFunc(id)
             /\ store[id].exists /\ store[id].del
             /\ store[id].fin = <<OtherFinalizer>>
             /\ store[id].rv >= 4

\* What reconciling an object comes to: while it is not being deleted its
\* stored finalizer list holds the token, once it is being deleted the list
\* holds it no more (and the store purges the object when the list is empty).
Reconciled(id) ==
    \/ ~store[id].exists
    \/ store[id].del /\ ~TokenIn(store[id].fin)
    \/ ~store[id].del /\ TokenIn(store[id].fin)

SyncFailed(id) ==
    \E w \in Workers :
        pc[w] = "ret" /\ res[w].err /\ item[w] = MetaNamespaceKeyFunc(id)

\* C16: with every goroutine scheduled fairly, if from some point on no
\* sync fails any more and no other client writes to the store, a sync of
\* an object that has failed is followed by the object being reconciled
\* (unless the controller is stopped first).
C16_FailedSyncIsRetried ==
    \A id \in ObjIds :
        (/\ <>[](\A i \in ObjIds : ~SyncFailed(i))
         /\ <>[][edits' = edits]_vars)
        => (SyncFailed(id) ~> (Reconciled(id) \/ stopCh))

\* C17: an Update that fails leaves the object as the next read sees it
\* unchanged, so no sync takes an object for established (syncUpdate) while
\* its stored finalizer list lacks the token.
C17_EstablishedHasStoredToken ==
    \A w \in Workers :
        (pc[w] = "ret" /\ res[w].path = "update")
        => \E id \in ObjIds :
             /\ item[w] = MetaNamespaceKeyFunc(id)
             /\ store[id].exists
             /\ TokenIn(store[id].fin)

\* C18: the requeue count of an item grows by one with an AddRateLimited
\* and otherwise stays, except that it returns to zero when a worker leaves
\* a sync of the item that returned nil (or an item that is no string); and
\* each requeue's delay is longer than the one before it until the delay is
\* the ceiling, which no delay exceeds.
C18_BackoffGrowsToCeiling ==
    [][\A x \in Items :
         /\ \/ wq'.failures[x] = wq.failures[x]
            \/ wq'.failures[x] = wq.failures[x] + 1
            \/ /\ wq'.failures[x] = 0
               /\ \E w \in Workers :
                    /\ pc[w] = "ret" /\ pc'[w] # "ret"
                    /\ item[w] = x
                    /\ ~res[w].err
         /\ wq'.failures[x] = wq.failures[x] + 1
            => /\ wq'.delay[x] <= MaxDelay
               /\ wq'.delay[x] >= BaseDelay
               /\ wq.failures[x] > 0
                  => \/ wq'.delay[x] > wq.delay[x]
                     \/ wq'.delay[x] = MaxDelay /\ wq.delay[x] = MaxDelay]_vars

\* A sync of a key has failed whose last requeue had the longest delay.
C18_Witness ==
    \E w \in Workers :
        /\ pc[w] = "ret" /\ res[w].err
        /\ wq.delay[item[w]] = MaxDelay
        /\ wq.failures[item[w]] > MaxRequeues + 1

\* C19: the deletion timestamp of a stored object is never cleared, and an
\* object the informer has shown as being deleted is never shown otherwise
\* again; a sync that reads an object being deleted calls syncDelete; and a
\* write of the controller leaves the stored object as it was but for the
\* token in its finalizer list, the object going only when the store purges
\* it as its last finalizer, the token, is removed.
C19_OnlyTokenChangesAndDeletingStays ==
    [][\A id \in ObjIds :
         /\ (store[id].exists /\ store[id].del /\ store'[id].exists)
            => store'[id].del
         /\ (/\ cache[id].exists /\ cache[id].del
             /\ cache'[id].exists /\ cache'[id].uid = cache[id].uid)
            => cache'[id].del
         /\ \A w \in Workers :
              (/\ pc[w] = "sync" /\ pc'[w] \in {"persist", "ret"}
               /\ item[w] = MetaNamespaceKeyFunc(id)
               /\ cache[id].exists /\ cache[id].del
               /\ res'[w].path # "readerr")
              => res'[w].path = "delete"
         /\ (edits' = edits /\ store'[id] # store[id])
            => /\ store[id].exists
               /\ IF store'[id].exists
                  THEN /\ store'[id].uid = store[id].uid
                       /\ store'[id].del = store[id].del
                       /\ Range(store'[id].fin) \ {AstroFinalizer}
                            = Range(store[id].fin) \ {AstroFinalizer}
                  ELSE /\ store[id].del
                       /\ Range(store[id].fin) = {AstroFinalizer}]_vars

\* An object being deleted that still has another finalizer is synced once
\* more after the token has left its list.
C19_Witness ==
    \E w \in Workers :
        /\ pc[w] = "persist" /\ res[w].path = "delete"
        /\ store[astro[w].id].exists /\ store[astro[w].id].del
        /\ store[astro[w].id].fin = <<OtherFinalizer>>
        /\ store[astro[w].id].rv >= 4
        /\ cache[astro[w].id] = store[astro[w].id]

\* C20: a sync reads the store at most once and writes to it at most once;
\* a sync that reads an object with the token and no deletion timestamp
\* returns nil without a write; an Update that fails changes nothing and
\* is not tried again: the handler returns, and the worker leaves the sync
\* with the error.
C20_NoRetryInsideSync ==
    [][\A w \in Workers :
         /\ res'[w].reads <= 1
         /\ res'[w].writes <= 1
         /\ \A id \in ObjIds :
              (/\ pc[w] = "sync" /\ pc'[w] # "sync"
               /\ item[w] = MetaNamespaceKeyFunc(id)
               /\ cache[id].exists /\ ~cache[id].del
               /\ TokenIn(cache[id].fin)
               /\ res'[w].path # "readerr")
              => /\ pc'[w] = "ret"
                 /\ ~res'[w].err
                 /\ res'[w].writes = 0
                 /\ store' = store
         /\ (pc[w] = "persist" /\ pc'[w] # "persist")
            => /\ pc'[w] = "ret"
               /\ res'[w].writes = res[w].writes + 1
               /\ res'[w].err => store' = store
         /\ (pc[w] = "ret" /\ pc'[w] # "ret")
            => pc'[w] = IF res[w].err THEN "exited" ELSE "get"]_vars

\* An Update has failed and the handler has returned its error.
C20_Witness ==
    \E w \in Workers :
        /\ pc[w] = "ret" /\ res[w].err
        /\ res[w].reads = 1 /\ res[w].writes = 1
        /\ res[w].path = "delete"

====
